---- MODULE Spec2Model ----
(***************************************************************************)
(* The repo orchestrator of rust-ipfs (src/repo/mod.rs): a block store and *)
(* a data store behind one handle, and an mpsc channel of RepoEvents.      *)
(*                                                                         *)
(* Every Repo method returns a future; the futures of several tasks run    *)
(* concurrently on the executor's threads over clones of the same store    *)
(* handles.  A task of the model is one such caller: it calls one method,  *)
(* drives (or abandons) the returned future, and may then call again.      *)
(***************************************************************************)
EXTENDS Naturals, Sequences, FiniteSets

\* ------------------------------------------------------------- bounds
\* The number of Repo method calls made in one behaviour.
MaxCalls == 3

Tasks == {"t1", "t2"}
\* Block payloads; a block is its payload paired with the Cid derived from it.
Data == {"a", "b"}

None == "-"

\* ----------------------------------------------------- blocks and Cids
\* The content identifier of a payload: a fingerprint, one per payload.
CidOf(d) == IF d = "a" THEN "Qa" ELSE "Qb"

Cids == {CidOf(d) : d \in Data}

MkBlock(d) == [cid |-> CidOf(d), data |-> d]

\* ------------------------------------------------------------- results
\* Result<_, Error> and the value it carries, in one record shape.
Ok(c, d) == [tag |-> "Ok", cid |-> c, data |-> d, err |-> None]

OkUnit == Ok(None, None)

Err(e) == [tag |-> "Err", cid |-> None, data |-> None, err |-> e]

NoResult == [tag |-> "None", cid |-> None, data |-> None, err |-> None]

\* Poll::Pending
Pending == [tag |-> "Pending", cid |-> None, data |-> None, err |-> None]

IsErr(r) == r.tag = "Err"

IsOk(r) == r.tag = "Ok"

\* The failures a store operation can report.
BlockStoreErrors == {"BlockIoError"}

DataStoreErrors == {"DataIoError"}

\* --------------------------------------------------------------- events
WantBlock(c) == [kind |-> "WantBlock", cid |-> c]

ProvideBlock(c) == [kind |-> "ProvideBlock", cid |-> c]

UnprovideBlock(c) == [kind |-> "UnprovideBlock", cid |-> c]

VARIABLES
    blocks,         \* the block store: the sequence of its entries (blocks)
    ipns,           \* the data store's Ipns column: entries [key, value]
    chan,           \* the event channel: events enqueued and not yet received
    receiverAlive,  \* whether the channel's Receiver still exists
    tasks,          \* per task: the call it is in and the call's local state
    calls           \* the number of calls made so far

vars == <<blocks, ipns, chan, receiverAlive, tasks, calls>>

\* ------------------------------------------------------ the block store
\* BlockStore::contains
StoreContains(store, c) == \E i \in 1..Len(store) : store[i].cid = c

\* BlockStore::get: the stored block, as Ok(Some(block)); Ok(None) when absent.
StoreGet(store, c) ==
    IF StoreContains(store, c)
    THEN LET i == CHOOSE j \in 1..Len(store) : store[j].cid = c
         IN  Ok(store[i].cid, store[i].data)
    ELSE OkUnit

\* BlockStore::put: stores the block and returns its Cid; re-storing a
\* present Cid changes nothing.
StorePut(store, b) ==
    [store |-> IF StoreContains(store, b.cid) THEN store ELSE Append(store, b),
     cid |-> b.cid]

IsNot(c, e) == e.cid # c

\* BlockStore::remove: removing an absent Cid is not an error.
StoreRemove(store, c) ==
    LET Keep(e) == IsNot(c, e) IN SelectSeq(store, Keep)

\* ---------------------------------------------------- the event channel
\* Sender::send: enqueues while the Receiver exists; fails, dropping the
\* event, once it is gone.  Returns the queue and whether the send was Ok.
ChanSend(queue, alive, ev) ==
    IF alive THEN [queue |-> Append(queue, ev), ok |-> TRUE]
    ELSE [queue |-> queue, ok |-> FALSE]

\* ---------------------------------------------------------------- tasks
\* An IpfsPath: a root, the Cid it names, and the segments below it.
NoPath == [root |-> None, cid |-> <<>>, segs |-> <<>>]

IdleTask ==
    [op |-> "idle", pc |-> "idle", data |-> None, cid |-> None,
     peer |-> None, path |-> NoPath,
     io |-> None, r1 |-> NoResult, r2 |-> NoResult,
     res |-> NoResult, sent |-> <<>>]

Init ==
    /\ blocks = <<>>
    /\ ipns = <<>>
    /\ chan = <<>>
    /\ receiverAlive = TRUE
    /\ tasks = [t \in Tasks |-> IdleTask]
    /\ calls = 0

\* A task may call a method when it is in no call: it has made none, its last
\* call has returned, or it has dropped the future of its last call.
CanCall(t) ==
    /\ calls < MaxCalls
    /\ tasks[t].pc \in {"idle", "done", "dropped"}

\* What a store operation reports: None for success, or the failure.  The
\* store decides it when the operation runs.
BlockOutcomes == {None} \cup BlockStoreErrors

DataOutcomes == {None} \cup DataStoreErrors

UnitResult(io) == IF io = None THEN OkUnit ELSE Err(io)

Start(t, call) ==
    /\ CanCall(t)
    /\ tasks' = [tasks EXCEPT ![t] = call]
    /\ calls' = calls + 1

\* ------------------------------------------------------ init() / open()
Call_init(t) ==
    /\ Start(t, [IdleTask EXCEPT !.op = "init", !.pc = "join"])
    /\ UNCHANGED <<ipns, blocks, chan, receiverAlive>>

Call_open(t) ==
    /\ Start(t, [IdleTask EXCEPT !.op = "open", !.pc = "join"])
    /\ UNCHANGED <<ipns, blocks, chan, receiverAlive>>

\* join!(f1, f2): f1, the block store's future, completes.
Join_block_store(t) ==
    /\ tasks[t].pc = "join"
    /\ tasks[t].r1 = NoResult
    /\ \E io \in BlockOutcomes :
          tasks' = [tasks EXCEPT ![t].r1 = UnitResult(io)]
    /\ UNCHANGED <<ipns, blocks, chan, receiverAlive, calls>>

\* join!(f1, f2): f2, the data store's future, completes.
Join_data_store(t) ==
    /\ tasks[t].pc = "join"
    /\ tasks[t].r2 = NoResult
    /\ \E io \in DataOutcomes :
          tasks' = [tasks EXCEPT ![t].r2 = UnitResult(io)]
    /\ UNCHANGED <<ipns, blocks, chan, receiverAlive, calls>>

\* The aggregation replacing the stores' errors by one of its own.
Aggregate_generic(r1, r2) ==
    IF IsErr(r1) \/ IsErr(r2) THEN Err("InitFailed") ELSE OkUnit

\* The aggregation looking at the block store's result alone.
Aggregate_first(r1, r2) == r1

\* if r1.is_err() { r1 } else { r2 }
Aggregate(r1, r2) == IF IsErr(r1) THEN r1 ELSE r2

\* try_join! in place of join!: the block returns as soon as either future
\* has failed, with that failure.
Join_return_try(t) ==
    /\ tasks[t].pc = "join"
    /\ \/ IsErr(tasks[t].r1)
       \/ IsErr(tasks[t].r2)
       \/ tasks[t].r1 # NoResult /\ tasks[t].r2 # NoResult
    /\ tasks' = [tasks EXCEPT
                    ![t].res = IF IsErr(tasks[t].r1) THEN tasks[t].r1
                               ELSE tasks[t].r2,
                    ![t].pc = "done"]
    /\ UNCHANGED <<ipns, blocks, chan, receiverAlive, calls>>

\* join! is ready once both futures are; the block then returns.
Join_return(t) ==
    /\ tasks[t].pc = "join"
    /\ tasks[t].r1 # NoResult
    /\ tasks[t].r2 # NoResult
    /\ tasks' = [tasks EXCEPT ![t].res = Aggregate(tasks[t].r1, tasks[t].r2),
                              ![t].pc = "done"]
    /\ UNCHANGED <<ipns, blocks, chan, receiverAlive, calls>>

\* ------------------------------------------------------------ put_block
\* The call clones the handles and returns the future; nothing runs yet.
Call_put_block(t) ==
    /\ \E d \in Data :
          Start(t, [IdleTask EXCEPT !.op = "put_block", !.pc = "put",
                                    !.data = d])
    /\ UNCHANGED <<ipns, blocks, chan, receiverAlive>>

\* put_block announcing the block whatever the store said: on a failed put
\* it sends ProvideBlock before it returns the error.
PutBlock_put_sendfirst(t) ==
    /\ tasks[t].pc = "put"
    /\ \E io \in BlockOutcomes :
          IF io = None
          THEN LET p == StorePut(blocks, MkBlock(tasks[t].data))
               IN  /\ blocks' = p.store
                   /\ chan' = chan
                   /\ tasks' = [tasks EXCEPT ![t].cid = p.cid,
                                             ![t].io = "ok", ![t].pc = "send"]
          ELSE LET ev == ProvideBlock(CidOf(tasks[t].data))
                   s == ChanSend(chan, receiverAlive, ev)
               IN  /\ blocks' = blocks
                   /\ chan' = s.queue
                   /\ tasks' = [tasks EXCEPT ![t].res = Err(io), ![t].io = io,
                                             ![t].sent = Append(@, ev),
                                             ![t].pc = "done"]
    /\ UNCHANGED <<ipns, receiverAlive, calls>>

\* put_block refusing a block that is already stored.
PutBlock_put_exists(t) ==
    /\ tasks[t].pc = "put"
    /\ \E io \in BlockOutcomes :
          IF io # None
          THEN /\ blocks' = blocks
               /\ tasks' = [tasks EXCEPT ![t].res = Err(io), ![t].io = io,
                                         ![t].pc = "done"]
          ELSE IF StoreContains(blocks, CidOf(tasks[t].data))
          THEN /\ blocks' = blocks
               /\ tasks' = [tasks EXCEPT ![t].res = Err("AlreadyExists"),
                                         ![t].pc = "done"]
          ELSE LET p == StorePut(blocks, MkBlock(tasks[t].data))
               IN  /\ blocks' = p.store
                   /\ tasks' = [tasks EXCEPT ![t].cid = p.cid,
                                             ![t].io = "ok", ![t].pc = "send"]
    /\ UNCHANGED <<ipns, chan, receiverAlive, calls>>

\* put_block writing the store back as the new block alone, losing what
\* other calls stored meanwhile.
PutBlock_put_overwrite(t) ==
    /\ tasks[t].pc = "put"
    /\ \E io \in BlockOutcomes :
          IF io = None
          THEN /\ blocks' = <<MkBlock(tasks[t].data)>>
               /\ tasks' = [tasks EXCEPT ![t].cid = CidOf(tasks[t].data),
                                         ![t].io = "ok", ![t].pc = "send"]
          ELSE /\ blocks' = blocks
               /\ tasks' = [tasks EXCEPT ![t].res = Err(io), ![t].io = io,
                                         ![t].pc = "done"]
    /\ UNCHANGED <<ipns, chan, receiverAlive, calls>>

\* let cid = await!(block_store.put(block))?;
PutBlock_put(t) ==
    /\ tasks[t].pc = "put"
    /\ \E io \in BlockOutcomes :
          IF io = None
          THEN LET p == StorePut(blocks, MkBlock(tasks[t].data))
               IN  /\ blocks' = p.store
                   /\ tasks' = [tasks EXCEPT ![t].cid = p.cid,
                                             ![t].io = "ok", ![t].pc = "send"]
          ELSE /\ blocks' = blocks
               /\ tasks' = [tasks EXCEPT ![t].res = Err(io), ![t].io = io,
                                         ![t].pc = "done"]
    /\ UNCHANGED <<ipns, chan, receiverAlive, calls>>

\* put_block with `?` on its send: a send to a dropped receiver fails the call.
PutBlock_send_propagate(t) ==
    /\ tasks[t].pc = "send"
    /\ LET ev == ProvideBlock(tasks[t].cid)
           s == ChanSend(chan, receiverAlive, ev)
       IN  /\ chan' = s.queue
           /\ tasks' = [tasks EXCEPT ![t].sent = Append(@, ev),
                                     ![t].res = IF s.ok
                                                THEN Ok(tasks[t].cid, None)
                                                ELSE Err("SendError"),
                                     ![t].pc = "done"]
    /\ UNCHANGED <<ipns, blocks, receiverAlive, calls>>

\* put_block without its send: it returns the Cid and tells no one.
PutBlock_send_silent(t) ==
    /\ tasks[t].pc = "send"
    /\ tasks' = [tasks EXCEPT ![t].res = Ok(tasks[t].cid, None),
                              ![t].pc = "done"]
    /\ UNCHANGED <<ipns, blocks, chan, receiverAlive, calls>>

\* let _ = events.send(RepoEvent::ProvideBlock(cid.clone())); Ok(cid)
PutBlock_send(t) ==
    /\ tasks[t].pc = "send"
    /\ LET ev == ProvideBlock(tasks[t].cid)
           s == ChanSend(chan, receiverAlive, ev)
       IN  /\ chan' = s.queue
           /\ tasks' = [tasks EXCEPT ![t].sent = Append(@, ev),
                                     ![t].res = Ok(tasks[t].cid, None),
                                     ![t].pc = "done"]
    /\ UNCHANGED <<ipns, blocks, receiverAlive, calls>>

\* ------------------------------------------------------------ get_block
Call_get_block(t) ==
    /\ \E c \in Cids :
          Start(t, [IdleTask EXCEPT !.op = "get_block", !.pc = "contains",
                                    !.cid = c])
    /\ UNCHANGED <<ipns, blocks, chan, receiverAlive>>

\* get_block taking a failed containment check for "not stored".
GetBlock_contains_default(t) ==
    /\ tasks[t].pc = "contains"
    /\ \E io \in BlockOutcomes :
          tasks' =
             IF io = None /\ StoreContains(blocks, tasks[t].cid)
             THEN [tasks EXCEPT ![t].io = "present", ![t].pc = "await"]
             ELSE [tasks EXCEPT ![t].io = IF io = None THEN "absent" ELSE io,
                                ![t].pc = "want"]
    /\ UNCHANGED <<ipns, blocks, chan, receiverAlive, calls>>

\* get_block with the `!` of its test lost: it wants what it has.
GetBlock_contains_inverted(t) ==
    /\ tasks[t].pc = "contains"
    /\ \E io \in BlockOutcomes :
          tasks' =
             IF io # None
             THEN [tasks EXCEPT ![t].res = Err(io), ![t].io = io,
                                ![t].pc = "done"]
             ELSE IF StoreContains(blocks, tasks[t].cid)
             THEN [tasks EXCEPT ![t].io = "present", ![t].pc = "want"]
             ELSE [tasks EXCEPT ![t].io = "absent", ![t].pc = "await"]
    /\ UNCHANGED <<ipns, blocks, chan, receiverAlive, calls>>

\* if !await!(block_store.contains(&cid))? { ... }
GetBlock_contains(t) ==
    /\ tasks[t].pc = "contains"
    /\ \E io \in BlockOutcomes :
          tasks' =
             IF io # None
             THEN [tasks EXCEPT ![t].res = Err(io), ![t].io = io,
                                ![t].pc = "done"]
             ELSE IF StoreContains(blocks, tasks[t].cid)
             THEN [tasks EXCEPT ![t].io = "present", ![t].pc = "await"]
             ELSE [tasks EXCEPT ![t].io = "absent", ![t].pc = "want"]
    /\ UNCHANGED <<ipns, blocks, chan, receiverAlive, calls>>

\* let _ = events.send(RepoEvent::WantBlock(cid.clone()));
GetBlock_want(t) ==
    /\ tasks[t].pc = "want"
    /\ LET ev == WantBlock(tasks[t].cid)
           s == ChanSend(chan, receiverAlive, ev)
       IN  /\ chan' = s.queue
           /\ tasks' = [tasks EXCEPT ![t].sent = Append(@, ev),
                                     ![t].pc = "await"]
    /\ UNCHANGED <<ipns, blocks, receiverAlive, calls>>

\* BlockFuture::poll: ready with the block once the store contains the Cid,
\* pending (to be polled again) until then.
BlockFuturePoll(store, c) ==
    IF StoreContains(store, c) THEN StoreGet(store, c) ELSE Pending

\* get_block polling the future once and never again: a poll that finds the
\* block missing parks the call for good.
GetBlock_await_once(t) ==
    /\ tasks[t].pc = "await"
    /\ LET p == BlockFuturePoll(blocks, tasks[t].cid)
       IN  tasks' = IF p = Pending THEN [tasks EXCEPT ![t].pc = "parked"]
                    ELSE [tasks EXCEPT ![t].res = p, ![t].pc = "done"]
    /\ UNCHANGED <<ipns, blocks, chan, receiverAlive, calls>>

\* get_block sending WantBlock again on every poll that finds the block
\* still missing.
GetBlock_await_rewant(t) ==
    /\ tasks[t].pc = "await"
    /\ LET p == BlockFuturePoll(blocks, tasks[t].cid)
           ev == WantBlock(tasks[t].cid)
           s == ChanSend(chan, receiverAlive, ev)
       IN  IF p = Pending
           THEN /\ chan' = s.queue
                /\ tasks' = [tasks EXCEPT ![t].sent = Append(@, ev)]
           ELSE /\ chan' = chan
                /\ tasks' = [tasks EXCEPT ![t].res = p, ![t].pc = "done"]
    /\ UNCHANGED <<ipns, blocks, receiverAlive, calls>>

\* await!(BlockFuture::new(block_store, cid)): one poll of the future.
GetBlock_await(t) ==
    /\ tasks[t].pc = "await"
    /\ LET p == BlockFuturePoll(blocks, tasks[t].cid)
       IN  tasks' = IF p = Pending THEN tasks
                    ELSE [tasks EXCEPT ![t].res = p, ![t].pc = "done"]
    /\ UNCHANGED <<ipns, blocks, chan, receiverAlive, calls>>

\* --------------------------------------------------------- remove_block
\* remove_block running the store's removal inside the call, before it
\* sends the event.
Call_remove_block_eager(t) ==
    /\ \E c \in Cids :
          LET ev == UnprovideBlock(c)
              s == ChanSend(chan, receiverAlive, ev)
          IN  /\ blocks' = StoreRemove(blocks, c)
              /\ chan' = s.queue
              /\ Start(t, [IdleTask EXCEPT !.op = "remove_block",
                                           !.pc = "remove", !.cid = c,
                                           !.sent = <<ev>>])
    /\ UNCHANGED <<ipns, receiverAlive>>

\* remove_block announcing the removal only of a block the store holds.
Call_remove_block_ifpresent(t) ==
    /\ \E c \in Cids :
          LET ev == UnprovideBlock(c)
              s == ChanSend(chan, receiverAlive, ev)
              has == StoreContains(blocks, c)
          IN  /\ chan' = IF has THEN s.queue ELSE chan
              /\ Start(t, [IdleTask EXCEPT !.op = "remove_block",
                                           !.pc = "remove", !.cid = c,
                                           !.sent = IF has THEN <<ev>>
                                                    ELSE <<>>])
    /\ UNCHANGED <<ipns, blocks, receiverAlive>>

\* The event is sent by the call itself; the future it returns is the
\* store's removal, which has not run yet.
Call_remove_block(t) ==
    /\ \E c \in Cids :
          LET ev == UnprovideBlock(c)
              s == ChanSend(chan, receiverAlive, ev)
          IN  /\ chan' = s.queue
              /\ Start(t, [IdleTask EXCEPT !.op = "remove_block",
                                           !.pc = "remove", !.cid = c,
                                           !.sent = <<ev>>])
    /\ UNCHANGED <<ipns, blocks, receiverAlive>>

\* remove_block whose removal reports success and leaves the block stored.
RemoveBlock_remove_keep(t) ==
    /\ tasks[t].pc = "remove"
    /\ \E io \in BlockOutcomes :
          /\ blocks' = blocks
          /\ tasks' = [tasks EXCEPT ![t].res = UnitResult(io),
                                    ![t].io = IF io = None THEN "ok" ELSE io,
                                    ![t].pc = "done"]
    /\ UNCHANGED <<ipns, chan, receiverAlive, calls>>

\* remove_block hiding a failed removal from its caller.
RemoveBlock_remove_swallow(t) ==
    /\ tasks[t].pc = "remove"
    /\ \E io \in BlockOutcomes :
          /\ blocks' = IF io = None
                       THEN StoreRemove(blocks, tasks[t].cid) ELSE blocks
          /\ tasks' = [tasks EXCEPT ![t].res = OkUnit,
                                    ![t].io = IF io = None THEN "ok" ELSE io,
                                    ![t].pc = "done"]
    /\ UNCHANGED <<ipns, chan, receiverAlive, calls>>

\* self.block_store.remove(cid), driven by the caller.
RemoveBlock_remove(t) ==
    /\ tasks[t].pc = "remove"
    /\ \E io \in BlockOutcomes :
          /\ blocks' = IF io = None
                       THEN StoreRemove(blocks, tasks[t].cid) ELSE blocks
          /\ tasks' = [tasks EXCEPT ![t].res = UnitResult(io),
                                    ![t].io = IF io = None THEN "ok" ELSE io,
                                    ![t].pc = "done"]
    /\ UNCHANGED <<ipns, chan, receiverAlive, calls>>

\* ================================================================= IPNS
\* ------------------------------------------- strings and their UTF-8 form
\* A string is a sequence of characters; bytes are numbers below 256.
ReplacementChar == "U+FFFD"

OtherChar == "U+FFFF"

\* str::as_bytes for one character: its UTF-8 encoding.
Utf8Char(c) ==
    CASE c = "/" -> <<47>>
      [] c = "Q" -> <<81>>
      [] c = "f" -> <<102>>
      [] c = "i" -> <<105>>
      [] c = "n" -> <<110>>
      [] c = "p" -> <<112>>
      [] c = "s" -> <<115>>
      [] c = "x" -> <<120>>
      [] c = "y" -> <<121>>
      [] c = ReplacementChar -> <<239, 191, 189>>
      [] OTHER -> <<239, 191, 191>>

RECURSIVE AsBytes(_)
\* str::as_bytes
AsBytes(string) ==
    IF string = <<>> THEN <<>>
    ELSE Utf8Char(Head(string)) \o AsBytes(Tail(string))

AsciiChars == {"/", "Q", "f", "i", "n", "p", "s", "x", "y"}

IsContinuation(b) == b \in 128..191

\* The length of the well-formed sequence, or of the maximal ill-formed
\* part, at the head of bytes, and the character it decodes to.  The only
\* lead byte above 127 that is followed here is 0xEF.
DecodeHead(bytes) ==
    LET b == Head(bytes) IN
    IF b < 128
    THEN [len |-> 1,
          char |-> IF \E c \in AsciiChars : Utf8Char(c) = <<b>>
                   THEN CHOOSE c \in AsciiChars : Utf8Char(c) = <<b>>
                   ELSE OtherChar,
          valid |-> TRUE]
    ELSE IF b = 239 /\ Len(bytes) >= 2 /\ IsContinuation(bytes[2])
    THEN IF Len(bytes) >= 3 /\ IsContinuation(bytes[3])
         THEN [len |-> 3,
               char |-> IF SubSeq(bytes, 1, 3) = Utf8Char(ReplacementChar)
                        THEN ReplacementChar ELSE OtherChar,
               valid |-> TRUE]
         ELSE [len |-> 2, char |-> ReplacementChar, valid |-> FALSE]
    ELSE [len |-> 1, char |-> ReplacementChar, valid |-> FALSE]

RECURSIVE FromUtf8Lossy(_)
\* String::from_utf8_lossy: never fails; every ill-formed part of the input
\* becomes one U+FFFD.
FromUtf8Lossy(bytes) ==
    IF bytes = <<>> THEN <<>>
    ELSE LET h == DecodeHead(bytes)
         IN  <<h.char>> \o FromUtf8Lossy(SubSeq(bytes, h.len + 1, Len(bytes)))

RECURSIVE IsValidUtf8(_)
\* Whether bytes are well-formed UTF-8 (what String::from_utf8 accepts).
IsValidUtf8(bytes) ==
    IF bytes = <<>> THEN TRUE
    ELSE LET h == DecodeHead(bytes)
         IN  /\ h.valid
             /\ IsValidUtf8(SubSeq(bytes, h.len + 1, Len(bytes)))

\* ------------------------------------------------------------- IpfsPath
Roots == {"ipfs", "ipns"}

RootChars(root) ==
    IF root = "ipfs" THEN <<"i", "p", "f", "s">> ELSE <<"i", "p", "n", "s">>

CidChars == {"Q", "y"}

IsCidString(s) == s # <<>> /\ \A i \in 1..Len(s) : s[i] \in CidChars

Path(root, c, segs) == [root |-> root, cid |-> c, segs |-> segs]

RECURSIVE JoinSegs(_)
JoinSegs(segs) ==
    IF segs = <<>> THEN <<>>
    ELSE <<"/">> \o Head(segs) \o JoinSegs(Tail(segs))

\* IpfsPath::to_string (Display): "/" root "/" cid, then "/" segment for each segment.
PathToString(path) ==
    <<"/">> \o RootChars(path.root) \o <<"/">> \o path.cid \o JoinSegs(path.segs)

RECURSIVE Split(_)
\* The parts of a string between its "/" separators.
Split(string) ==
    IF string = <<>> THEN << <<>> >>
    ELSE LET rest == Split(Tail(string)) IN
         IF Head(string) = "/" THEN << <<>> >> \o rest
         ELSE << <<Head(string)>> \o Head(rest) >> \o Tail(rest)

\* IpfsPath::from_str: the inverse of to_string; anything to_string cannot
\* produce is a parse error.
FromStr(string) ==
    LET parts == Split(string) IN
    IF /\ Len(parts) >= 3
       /\ parts[1] = <<>>
       /\ \E r \in Roots : RootChars(r) = parts[2]
       /\ IsCidString(parts[3])
       /\ \A i \in 4..Len(parts) : parts[i] # <<>>
    THEN [ok |-> TRUE,
          path |-> Path(CHOOSE r \in Roots : RootChars(r) = parts[2],
                        parts[3], SubSeq(parts, 4, Len(parts)))]
    ELSE [ok |-> FALSE, path |-> NoPath]

\* The paths the callers publish.
PathValues ==
    { Path("ipfs", <<"Q", "y">>, <<>>),
      Path("ipfs", <<"Q", "y">>, << <<"x">> >>),
      Path("ipns", <<"y">>, << <<ReplacementChar>> >>) }

\* ------------------------------------------------------- the data store
Peers == {"peerA", "peerB"}

\* PeerId::as_bytes
PeerBytes(p) == IF p = "peerA" THEN <<1>> ELSE <<2>>

\* DataStore::contains
DataContains(store, k) == \E i \in 1..Len(store) : store[i].key = k

\* DataStore::get: Some(bytes) when a record is stored under the key.
DataGet(store, k) ==
    IF DataContains(store, k)
    THEN [some |-> TRUE,
          bytes |-> store[CHOOSE j \in 1..Len(store) : store[j].key = k].value]
    ELSE [some |-> FALSE, bytes |-> <<>>]

\* DataStore::remove: removing an absent key is not an error.
DataRemove(store, k) ==
    LET Keep(e) == e.key # k IN SelectSeq(store, Keep)

\* DataStore::put: the record under the key becomes the value.
DataPut(store, k, v) == Append(DataRemove(store, k), [key |-> k, value |-> v])

\* What a data store opened over earlier contents may hold under a key: a
\* record written by put_ipns, or bytes that are not one.
StoredBytes ==
    { AsBytes(PathToString(v)) : v \in PathValues }
    \cup { AsBytes(<<"/", "i", "p", "f", "s", "/", "Q", "y", "/">>) \o <<255>>,
           AsBytes(<<"/", "i", "p", "f", "s", "/", "Q">>) \o <<239, 191>>,
           AsBytes(<<"Q", "y">>) }

\* The repository over a data store that already holds one record or none.
InitIpns ==
    /\ blocks = <<>>
    /\ ipns \in {<<>>} \cup { <<[key |-> PeerBytes("peerA"), value |-> b]>> :
                                 b \in StoredBytes }
    /\ chan = <<>>
    /\ receiverAlive = TRUE
    /\ tasks = [t \in Tasks |-> IdleTask]
    /\ calls = 0

\* ------------------------------------------------------------- get_ipns
OkSome == Ok(None, "Some")

OkNone == Ok(None, "None")

\* The call clones the data store handle and returns the future.
Call_get_ipns(t) ==
    /\ \E p \in Peers :
          Start(t, [IdleTask EXCEPT !.op = "get_ipns", !.pc = "ipns_get",
                                    !.peer = p])
    /\ UNCHANGED <<ipns, blocks, chan, receiverAlive>>

\* get_ipns reporting a missing record as a failure.
Decode_notfound(found) ==
    IF found.some
    THEN LET parsed == FromStr(FromUtf8Lossy(found.bytes)) IN
         IF parsed.ok THEN [res |-> OkSome, path |-> parsed.path]
         ELSE [res |-> Err("ParseError"), path |-> NoPath]
    ELSE [res |-> Err("NotFound"), path |-> NoPath]

\* match bytes { Some(ref bytes) => from_utf8_lossy, from_str?, Ok(Some(path));
\*               None => Ok(None) }
Decode(found) ==
    IF found.some
    THEN LET parsed == FromStr(FromUtf8Lossy(found.bytes)) IN
         IF parsed.ok THEN [res |-> OkSome, path |-> parsed.path]
         ELSE [res |-> Err("ParseError"), path |-> NoPath]
    ELSE [res |-> OkNone, path |-> NoPath]

\* await!(data_store.get(Column::Ipns, key.as_bytes()))? and the decoding.
GetIpns_get(t) ==
    /\ tasks[t].pc = "ipns_get"
    /\ \E io \in DataOutcomes :
          LET out == IF io = None
                     THEN Decode(DataGet(ipns, PeerBytes(tasks[t].peer)))
                     ELSE [res |-> Err(io), path |-> NoPath]
          IN  tasks' = [tasks EXCEPT ![t].io = io,
                                     ![t].res = out.res,
                                     ![t].path = out.path,
                                     ![t].pc = "done"]
    /\ UNCHANGED <<ipns, blocks, chan, receiverAlive, calls>>

\* ------------------------------------------------------------- put_ipns
\* The call serializes the path and returns the store's put future.
Call_put_ipns(t) ==
    /\ \E p \in Peers, v \in PathValues :
          Start(t, [IdleTask EXCEPT !.op = "put_ipns", !.pc = "ipns_put",
                                    !.peer = p, !.path = v])
    /\ UNCHANGED <<ipns, blocks, chan, receiverAlive>>

\* put_ipns storing the text of the path's Cid instead of the path's.
PutIpns_put_cidonly(t) ==
    /\ tasks[t].pc = "ipns_put"
    /\ \E io \in DataOutcomes :
          /\ ipns' = IF io = None
                     THEN DataPut(ipns, PeerBytes(tasks[t].peer),
                                  AsBytes(tasks[t].path.cid))
                     ELSE ipns
          /\ tasks' = [tasks EXCEPT ![t].io = io,
                                    ![t].res = UnitResult(io),
                                    ![t].pc = "done"]
    /\ UNCHANGED <<blocks, chan, receiverAlive, calls>>

\* The store's put runs: path.to_string().as_bytes() under ipns.as_bytes().
PutIpns_put(t) ==
    /\ tasks[t].pc = "ipns_put"
    /\ \E io \in DataOutcomes :
          /\ ipns' = IF io = None
                     THEN DataPut(ipns, PeerBytes(tasks[t].peer),
                                  AsBytes(PathToString(tasks[t].path)))
                     ELSE ipns
          /\ tasks' = [tasks EXCEPT ![t].io = io,
                                    ![t].res = UnitResult(io),
                                    ![t].pc = "done"]
    /\ UNCHANGED <<blocks, chan, receiverAlive, calls>>

\* ---------------------------------------------------------- remove_ipns
\* The call returns the store's remove future.
Call_remove_ipns(t) ==
    /\ \E p \in Peers :
          Start(t, [IdleTask EXCEPT !.op = "remove_ipns", !.pc = "ipns_remove",
                                    !.peer = p])
    /\ UNCHANGED <<ipns, blocks, chan, receiverAlive>>

\* The store's remove runs.
RemoveIpns_remove(t) ==
    /\ tasks[t].pc = "ipns_remove"
    /\ \E io \in DataOutcomes :
          /\ ipns' = IF io = None
                     THEN DataRemove(ipns, PeerBytes(tasks[t].peer))
                     ELSE ipns
          /\ tasks' = [tasks EXCEPT ![t].io = io,
                                    ![t].res = UnitResult(io),
                                    ![t].pc = "done"]
    /\ UNCHANGED <<blocks, chan, receiverAlive, calls>>

\* ------------------------------------------------------- the environment
\* A future can be dropped wherever it is suspended: at an await, or before
\* its first poll.  The send after a store call runs in the same poll.
\* Dropping it frees the state of the call; what the call did stays done.
Suspended(t) ==
    tasks[t].pc \in {"join", "put", "contains", "await", "remove",
                    "ipns_get", "ipns_put", "ipns_remove"}

\* Dropping a get_block that cleans up after itself in the store, removing
\* the block it was waiting for.
Abandon_cleanup(t) ==
    /\ Suspended(t)
    /\ tasks' = [tasks EXCEPT ![t] = [IdleTask EXCEPT !.op = tasks[t].op,
                                                     !.pc = "dropped",
                                                     !.cid = tasks[t].cid,
                                                     !.peer = tasks[t].peer,
                                                     !.sent = tasks[t].sent]]
    /\ blocks' = IF tasks[t].op = "get_block"
                 THEN StoreRemove(blocks, tasks[t].cid) ELSE blocks
    /\ UNCHANGED <<ipns, chan, receiverAlive, calls>>

Abandon(t) ==
    /\ Suspended(t)
    /\ tasks' = [tasks EXCEPT ![t] = [IdleTask EXCEPT !.op = tasks[t].op,
                                                     !.pc = "dropped",
                                                     !.cid = tasks[t].cid,
                                                     !.peer = tasks[t].peer,
                                                     !.sent = tasks[t].sent]]
    /\ UNCHANGED <<ipns, blocks, chan, receiverAlive, calls>>

\* The receiver takes the oldest event.
Recv ==
    /\ receiverAlive
    /\ chan # <<>>
    /\ chan' = Tail(chan)
    /\ UNCHANGED <<ipns, blocks, receiverAlive, tasks, calls>>

\* The Receiver is dropped, and what was queued with it.
DropReceiver ==
    /\ receiverAlive
    /\ receiverAlive' = FALSE
    /\ chan' = <<>>
    /\ UNCHANGED <<ipns, blocks, tasks, calls>>

\* The block operations and their environment.  init() and open() share no
\* state with them: they read and write only the results of their own call.
NextBlock ==
    \/ \E t \in Tasks :
          \/ Call_put_block(t)
          \/ PutBlock_put(t)
          \/ PutBlock_send(t)
          \/ Call_get_block(t)
          \/ GetBlock_contains(t)
          \/ GetBlock_want(t)
          \/ GetBlock_await(t)
          \/ Call_remove_block(t)
          \/ RemoveBlock_remove(t)
          \/ Abandon(t)
    \/ Recv
    \/ DropReceiver

Next ==
    \/ \E t \in Tasks :
          \/ Call_init(t)
          \/ Call_open(t)
          \/ Join_block_store(t)
          \/ Join_data_store(t)
          \/ Join_return(t)
          \/ Call_put_block(t)
          \/ PutBlock_put(t)
          \/ PutBlock_send(t)
          \/ Call_get_block(t)
          \/ GetBlock_contains(t)
          \/ GetBlock_want(t)
          \/ GetBlock_await(t)
          \/ Call_remove_block(t)
          \/ RemoveBlock_remove(t)
          \/ Abandon(t)
    \/ Recv
    \/ DropReceiver

Spec == Init /\ [][Next]_vars

\* The executor polls a future again whenever it is woken, and a future
\* that is polled runs to its next await: a get_block that can send its
\* WantBlock does, and one whose block has arrived is polled to completion.
Fairness ==
    \A t \in Tasks :
       /\ WF_vars(GetBlock_want(t))
       /\ WF_vars(GetBlock_await(t))

\* The block operations alone, under that fairness.
LiveSpec == Init /\ [][NextBlock]_vars /\ Fairness

\* The IPNS operations.  They read and write the data store alone, which no
\* block operation touches.
NextIpns ==
    \E t \in Tasks :
       \/ Call_get_ipns(t)
       \/ GetIpns_get(t)
       \/ Call_put_ipns(t)
       \/ PutIpns_put(t)
       \/ Call_remove_ipns(t)
       \/ RemoveIpns_remove(t)
       \/ Abandon(t)

IpnsSpec == InitIpns /\ [][NextIpns]_vars

\* =======================================================================
\* Properties
\* =======================================================================
\* The steps of a call, as seen on the task's record.
PutSucceeds(t) == tasks[t].pc = "put" /\ tasks'[t].pc = "send"

PutFails(t) == tasks[t].pc = "put" /\ tasks'[t].pc = "done"

PutReturnsOk(t) == tasks[t].pc = "send" /\ tasks'[t].pc = "done"

ContainsChecked(t) ==
    /\ tasks[t].pc = "contains"
    /\ tasks'[t].pc \in {"want", "await", "done"}

RemovalRuns(t) == tasks[t].pc = "remove" /\ tasks'[t].pc = "done"

\* What a send does to the queue, seen from outside.
Enqueued(ev) == chan' = IF receiverAlive THEN Append(chan, ev) ELSE chan

\* ------------------------------------------------------------------ C1
C1_State ==
    \A t \in Tasks :
       tasks[t].op = "put_block" =>
          /\ tasks[t].pc \in {"put", "send"} => tasks[t].sent = <<>>
          /\ tasks[t].pc = "send" => tasks[t].io = "ok"
          /\ (tasks[t].pc = "done" /\ IsOk(tasks[t].res)) =>
                /\ tasks[t].io = "ok"
                /\ tasks[t].res.cid = CidOf(tasks[t].data)
                /\ tasks[t].sent = <<ProvideBlock(tasks[t].res.cid)>>

\* C1 as amended: whenever put_block(b) returns Ok(cid), the call has sent
\* exactly one ProvideBlock(cid), after the block-store put succeeded and in
\* the step that returns; the event is enqueued on the channel if the
\* receiver is alive at that moment and is dropped otherwise.
C1_ProvideSentOnSuccess ==
    [][/\ C1_State'
       /\ \A t \in Tasks :
             PutReturnsOk(t) =>
                /\ tasks[t].io = "ok"
                /\ IsOk(tasks'[t].res)
                /\ Enqueued(ProvideBlock(tasks'[t].res.cid))]_vars

\* C1 as stated: whenever put_block(b) returns Ok(cid), that call has
\* enqueued exactly one ProvideBlock(cid) on the event channel.
C1_AlwaysEnqueued ==
    [][\A t \in Tasks :
          (PutReturnsOk(t) /\ IsOk(tasks'[t].res)) =>
             chan' = Append(chan, ProvideBlock(tasks'[t].res.cid))]_vars

C1_Witness ==
    \E t \in Tasks :
       /\ tasks[t].op = "put_block"
       /\ tasks[t].pc = "done"
       /\ IsOk(tasks[t].res)
       /\ receiverAlive
       /\ chan = <<ProvideBlock(tasks[t].res.cid)>>

\* ------------------------------------------------------------------ C2
C2_State ==
    \A t \in Tasks :
       (tasks[t].op = "put_block" /\ tasks[t].io \in BlockStoreErrors) =>
          /\ tasks[t].pc = "done"
          /\ tasks[t].res = Err(tasks[t].io)
          /\ tasks[t].sent = <<>>

\* C2: when the block-store put fails, put_block returns that error to the
\* caller and enqueues no event: no step of the call changes the channel.
C2_PutFailureEmitsNothing ==
    [][/\ C2_State'
       /\ \A t \in Tasks :
             /\ PutFails(t) =>
                   /\ tasks'[t].io \in BlockStoreErrors
                   /\ chan' = chan
                   /\ blocks' = blocks
             /\ (tasks[t].pc # "put" /\ tasks'[t].pc = "put") =>
                   chan' = chan]_vars

C2_Witness ==
    \E t \in Tasks :
       /\ tasks[t].op = "put_block"
       /\ tasks[t].pc = "done"
       /\ tasks[t].res = Err("BlockIoError")
       /\ receiverAlive
       /\ chan = <<>>
       /\ calls = 1

\* ------------------------------------------------------------------ C3
C3_State ==
    \A t \in Tasks :
       (tasks[t].op = "get_block" /\ tasks[t].io = "present") =>
          /\ tasks[t].pc \in {"await", "done"}
          /\ tasks[t].sent = <<>>
          /\ tasks[t].pc = "done" =>
                /\ IsOk(tasks[t].res)
                /\ tasks[t].res.cid = tasks[t].cid
                /\ CidOf(tasks[t].res.data) = tasks[t].cid

\* C3: for all blocks b, after put_block(b) succeeds, get_block(cid(b))
\* returns b and does not emit WantBlock.  A successful put leaves b stored
\* under its Cid; it stays stored, unchanged, until a removal by
\* remove_block runs; a get_block whose containment check runs while b is
\* stored, and does not fail, sends nothing and returns b.
C3_GetAfterPut ==
    [][/\ C3_State'
       /\ \A t \in Tasks :
             /\ PutSucceeds(t) =>
                   StoreGet(blocks', CidOf(tasks[t].data)) =
                      Ok(CidOf(tasks[t].data), tasks[t].data)
             /\ (ContainsChecked(t) /\ StoreContains(blocks, tasks[t].cid)
                   /\ ~IsErr(tasks'[t].res)) =>
                   /\ tasks'[t].io = "present"
                   /\ tasks'[t].pc = "await"
             /\ (tasks[t].pc = "await" /\ tasks'[t].pc = "done") =>
                   /\ StoreContains(blocks, tasks[t].cid)
                   /\ tasks'[t].res = StoreGet(blocks, tasks[t].cid)
       /\ \A c \in Cids :
             (StoreContains(blocks, c)
                /\ StoreGet(blocks', c) # StoreGet(blocks, c)) =>
                \E t \in Tasks :
                   /\ RemovalRuns(t)
                   /\ tasks[t].op = "remove_block"
                   /\ tasks[t].cid = c]_vars

C3_Witness ==
    \E t, u \in Tasks :
       /\ tasks[t].op = "put_block"
       /\ tasks[t].pc = "done"
       /\ IsOk(tasks[t].res)
       /\ tasks[u].op = "get_block"
       /\ tasks[u].pc = "done"
       /\ tasks[u].res = Ok(tasks[t].res.cid, tasks[t].data)
       /\ tasks[u].sent = <<>>

\* ------------------------------------------------------------------ C4
C4_State ==
    \A t \in Tasks :
       tasks[t].op = "get_block" =>
          /\ tasks[t].io = "absent" =>
                /\ tasks[t].pc \in {"want", "await", "done"}
                /\ tasks[t].pc = "want" => tasks[t].sent = <<>>
                /\ tasks[t].pc \in {"await", "done"} =>
                      tasks[t].sent = <<WantBlock(tasks[t].cid)>>
          /\ tasks[t].pc = "dropped" =>
                tasks[t].sent \in {<<>>, <<WantBlock(tasks[t].cid)>>}

\* C4: for all Cids c never previously stored, get_block(c) emits exactly
\* one WantBlock(c) before suspending, and no further one while it stays
\* suspended.  Only a put_block stores a Cid, so a Cid never stored is absent
\* at the containment check; a check that finds it absent is followed by one
\* send of WantBlock(c) (enqueued while the receiver is alive) before the
\* wait begins, and the wait sends nothing.
C4_OneWantBeforeSuspending ==
    [][/\ C4_State'
       /\ \A t \in Tasks :
             /\ (ContainsChecked(t) /\ ~StoreContains(blocks, tasks[t].cid)
                   /\ ~IsErr(tasks'[t].res)) =>
                   /\ tasks'[t].io = "absent"
                   /\ tasks'[t].pc = "want"
             /\ (tasks[t].pc = "want" /\ tasks'[t].pc # "want") =>
                   /\ tasks'[t].pc = "await"
                   /\ Enqueued(WantBlock(tasks[t].cid))
             /\ (tasks[t].pc = "await" /\ tasks'[t].pc = "await") =>
                   tasks'[t].sent = tasks[t].sent
       /\ \A c \in Cids :
             (~StoreContains(blocks, c) /\ StoreContains(blocks', c)) =>
                \E t \in Tasks :
                   PutSucceeds(t) /\ CidOf(tasks[t].data) = c]_vars

C4_Witness ==
    \E t \in Tasks :
       /\ tasks[t].op = "get_block"
       /\ tasks[t].pc = "await"
       /\ calls = 1
       /\ receiverAlive
       /\ chan = <<WantBlock(tasks[t].cid)>>

\* ------------------------------------------------------------------ C5
Stored(c) == StoreContains(blocks, c)

WaitingAbsent(t, c) ==
    /\ tasks[t].op = "get_block"
    /\ tasks[t].cid = c
    /\ tasks[t].io = "absent"
    /\ tasks[t].pc \notin {"done", "dropped"}

Resolved(t, c) ==
    /\ tasks[t].op = "get_block"
    /\ tasks[t].pc = "done"
    /\ IsOk(tasks[t].res)
    /\ tasks[t].res.cid = c
    /\ CidOf(tasks[t].res.data) = c

\* C5: a get_block(c) that found c absent, and has not returned, resolves
\* with the block once the block is stored, unless the block is removed
\* again or the call is abandoned; wherever the put lands after the
\* containment check, before or after the wait begins.
C5_WaitingGetResolves ==
    \A t \in Tasks, c \in Cids :
       (WaitingAbsent(t, c) /\ Stored(c)) ~>
          (Resolved(t, c) \/ ~Stored(c) \/ tasks[t].pc = "dropped")

C5_Witness ==
    \E t, u \in Tasks :
       /\ tasks[t].op = "get_block"
       /\ tasks[t].io = "absent"
       /\ Resolved(t, tasks[t].cid)
       /\ tasks[u].op = "put_block"
       /\ tasks[u].pc = "done"
       /\ tasks[u].res = Ok(tasks[t].cid, None)

\* ------------------------------------------------------------------ C6
CallsRemove(t) == tasks[t].pc # "remove" /\ tasks'[t].pc = "remove"

C6_State ==
    \A t \in Tasks :
       tasks[t].op = "remove_block" =>
          tasks[t].sent = <<UnprovideBlock(tasks[t].cid)>>

\* C6: remove_block(c) always emits UnprovideBlock(c), whether or not c was
\* present in the block store: the call itself sends it, once, and it is
\* enqueued while the receiver is alive.
C6_RemoveAlwaysUnprovides ==
    [][/\ C6_State'
       /\ \A t \in Tasks :
             CallsRemove(t) =>
                /\ tasks'[t].op = "remove_block"
                /\ Enqueued(UnprovideBlock(tasks'[t].cid))]_vars

C6_Witness ==
    \E t \in Tasks :
       /\ tasks[t].op = "remove_block"
       /\ ~StoreContains(blocks, tasks[t].cid)
       /\ calls = 1
       /\ receiverAlive
       /\ chan = <<UnprovideBlock(tasks[t].cid)>>

\* ------------------------------------------------------------------ C7
C7_State ==
    \A t \in Tasks :
       (tasks[t].op = "remove_block" /\ tasks[t].io \in BlockStoreErrors) =>
          /\ tasks[t].pc = "done"
          /\ tasks[t].res = Err(tasks[t].io)
          /\ tasks[t].sent = <<UnprovideBlock(tasks[t].cid)>>

\* C7: when the block-store removal fails, remove_block(c) surfaces that
\* failure to the caller, and the failure takes nothing back: the
\* UnprovideBlock(c) the call sent stays where it was in the channel, and
\* the block stays in the store.
C7_FailedRemovalKeepsEvent ==
    [][/\ C7_State'
       /\ \A t \in Tasks :
             (RemovalRuns(t) /\ tasks'[t].io \in BlockStoreErrors) =>
                /\ tasks'[t].res = Err(tasks'[t].io)
                /\ chan' = chan
                /\ blocks' = blocks]_vars

C7_Witness ==
    \E t \in Tasks :
       /\ tasks[t].op = "remove_block"
       /\ tasks[t].pc = "done"
       /\ IsErr(tasks[t].res)
       /\ StoreContains(blocks, tasks[t].cid)
       /\ \E i \in 1..Len(chan) : chan[i] = UnprovideBlock(tasks[t].cid)

\* ------------------------------------------------------------------ C8
BlockOps == {"put_block", "get_block", "remove_block"}

C8_State ==
    \A t \in Tasks :
       (tasks[t].op \in BlockOps /\ IsErr(tasks[t].res)) =>
          /\ tasks[t].res.err \in BlockStoreErrors
          /\ tasks[t].res.err = tasks[t].io

\* C8: event emission never fails or delays the triggering operation.  The
\* step that sends has the same outcome whether the receiver is alive or
\* dropped: put_block returns Ok(cid), get_block goes on to its wait,
\* remove_block hands back the removal, the block store is untouched by the
\* send, and no call ever returns an error that is not the store's.
C8_SendNeverFailsOperation ==
    [][/\ C8_State'
       /\ \A t \in Tasks :
             /\ PutReturnsOk(t) =>
                   /\ tasks'[t].res = Ok(tasks[t].cid, None)
                   /\ blocks' = blocks
             /\ (tasks[t].pc = "want" /\ tasks'[t].pc # "want") =>
                   /\ tasks'[t].pc = "await"
                   /\ tasks'[t].res = NoResult
                   /\ blocks' = blocks
             /\ CallsRemove(t) =>
                   /\ tasks'[t].res = NoResult
                   /\ blocks' = blocks]_vars

C8_Witness ==
    \E t \in Tasks :
       /\ ~receiverAlive
       /\ tasks[t].op = "put_block"
       /\ tasks[t].pc = "done"
       /\ tasks[t].sent # <<>>
       /\ tasks[t].res = Ok(CidOf(tasks[t].data), None)
       /\ StoreContains(blocks, CidOf(tasks[t].data))

\* ------------------------------------------------------------------ C9
\* C9: init() returns Ok if and only if both the block store's init and the
\* data store's init return Ok, and likewise open(); it returns only after
\* both have, whether or not the event receiver is alive.
C9_InitOpenOkIffBoth ==
    \A t \in Tasks :
       (tasks[t].op \in {"init", "open"} /\ tasks[t].pc = "done") =>
          /\ tasks[t].r1 # NoResult
          /\ tasks[t].r2 # NoResult
          /\ IsOk(tasks[t].res) <=> (IsOk(tasks[t].r1) /\ IsOk(tasks[t].r2))
          /\ IsOk(tasks[t].res) \/ IsErr(tasks[t].res)

C9_Witness ==
    \E t, u \in Tasks :
       /\ ~receiverAlive
       /\ tasks[t].op = "init"
       /\ tasks[t].pc = "done"
       /\ IsOk(tasks[t].res)
       /\ tasks[u].op = "open"
       /\ tasks[u].pc = "done"
       /\ IsOk(tasks[u].r1)
       /\ IsErr(tasks[u].r2)
       /\ IsErr(tasks[u].res)

\* ----------------------------------------------------------------- C10
Entries(store, c) == {i \in 1..Len(store) : store[i].cid = c}

C10_State ==
    /\ \A c \in Cids : Cardinality(Entries(blocks, c)) <= 1
    /\ \A i \in 1..Len(blocks) : blocks[i] = MkBlock(blocks[i].data)
    /\ \A t \in Tasks :
          (tasks[t].op = "put_block" /\ tasks[t].pc = "done") =>
             \/ /\ tasks[t].io = "ok"
                /\ tasks[t].res = Ok(CidOf(tasks[t].data), None)
             \/ /\ tasks[t].io \in BlockStoreErrors
                /\ tasks[t].res = Err(tasks[t].io)

\* C10: put_block is idempotent.  Every put_block of the same content that
\* the store does not fail returns the same Cid, the one derived from the
\* content; the store then holds exactly one entry for that Cid, with the
\* original payload, and a put of content already stored changes nothing.
C10_PutIdempotent ==
    [][/\ C10_State'
       /\ \A t \in Tasks :
             PutSucceeds(t) =>
                LET c == CidOf(tasks[t].data)
                IN  /\ tasks'[t].cid = c
                    /\ Cardinality(Entries(blocks', c)) = 1
                    /\ StoreGet(blocks', c) = Ok(c, tasks[t].data)
                    /\ StoreContains(blocks, c) => blocks' = blocks]_vars

C10_Witness ==
    \E t, u \in Tasks :
       /\ t # u
       /\ tasks[t].op = "put_block"
       /\ tasks[u].op = "put_block"
       /\ tasks[t].data = tasks[u].data
       /\ tasks[t].pc = "done"
       /\ tasks[u].pc = "done"
       /\ IsOk(tasks[t].res)
       /\ tasks[u].res = tasks[t].res
       /\ blocks = <<MkBlock(tasks[t].data)>>

\* ----------------------------------------------------------------- C11
PutAccepted(t) ==
    /\ tasks[t].op = "put_block"
    /\ tasks[t].io = "ok"
    /\ tasks[t].pc \in {"send", "done"}

Retrievable(store, d) ==
    /\ StoreContains(store, CidOf(d))
    /\ StoreGet(store, CidOf(d)) = Ok(CidOf(d), d)
    /\ BlockFuturePoll(store, CidOf(d)) = Ok(CidOf(d), d)

\* Two put_block calls for distinct content, the only calls made: once the
\* store has accepted both, both blocks are retrievable, and a call that
\* has returned has returned its own Cid.
C11_State ==
    \A t, u \in Tasks :
       (/\ t # u
        /\ calls = 2
        /\ PutAccepted(t)
        /\ PutAccepted(u)
        /\ tasks[t].data # tasks[u].data) =>
          /\ Retrievable(blocks, tasks[t].data)
          /\ Retrievable(blocks, tasks[u].data)
          /\ tasks[t].pc = "done" => tasks[t].res = Ok(CidOf(tasks[t].data), None)

\* C11: concurrent put_block calls for distinct Cids do not disturb each
\* other, in any interleaving.  A put the store accepts makes its block
\* retrievable under its own Cid and leaves every other Cid's entry and
\* every other task's call as they were; a put fails only when the store
\* reports a failure; and a stored block stays retrievable until a
\* remove_block removes it.
C11_ConcurrentPuts ==
    [][/\ C11_State'
       /\ \A t \in Tasks :
             /\ PutSucceeds(t) =>
                   /\ Retrievable(blocks', tasks[t].data)
                   /\ \A d \in Data \ {tasks[t].data} :
                         /\ StoreContains(blocks', CidOf(d))
                               = StoreContains(blocks, CidOf(d))
                         /\ StoreGet(blocks', CidOf(d)) = StoreGet(blocks, CidOf(d))
                   /\ \A u \in Tasks \ {t} : tasks'[u] = tasks[u]
             /\ PutFails(t) =>
                   /\ tasks'[t].io \in BlockStoreErrors
                   /\ \A u \in Tasks \ {t} : tasks'[u] = tasks[u]
       /\ \A d \in Data :
             (Retrievable(blocks, d) /\ ~Retrievable(blocks', d)) =>
                \E t \in Tasks : RemovalRuns(t) /\ tasks[t].cid = CidOf(d)]_vars

C11_Witness ==
    \E t, u \in Tasks :
       /\ t # u
       /\ calls = 2
       /\ PutAccepted(t)
       /\ PutAccepted(u)
       /\ tasks[t].pc = "send"
       /\ tasks[u].pc = "send"
       /\ tasks[t].data # tasks[u].data
       /\ Retrievable(blocks, tasks[t].data)
       /\ Retrievable(blocks, tasks[u].data)

\* ----------------------------------------------------------------- C12
\* The steps of the IPNS calls, as seen on the task's record.
IpnsPutRuns(t) == tasks[t].pc = "ipns_put" /\ tasks'[t].pc = "done"

IpnsGetRuns(t) == tasks[t].pc = "ipns_get" /\ tasks'[t].pc = "done"

IpnsRemoveRuns(t) == tasks[t].pc = "ipns_remove" /\ tasks'[t].pc = "done"

Record(store, p) == DataGet(store, PeerBytes(p))

\* The record put_ipns(p, v) leaves under p.
RecordOf(v) == [some |-> TRUE, bytes |-> AsBytes(PathToString(v))]

\* C12: put_ipns(p, v) followed by get_ipns(p), with no mutation of p's
\* record in between, returns Some(v') with v' equal to v.  A put_ipns the
\* store does not fail leaves v's serialization under p; the record under p
\* changes only when a put_ipns or remove_ipns for p runs; and a get_ipns(p)
\* the store does not fail, reading what put_ipns(p, v) left, returns
\* Some(v).
C12_PutThenGetIpns ==
    [][/\ \A t \in Tasks :
             /\ (IpnsPutRuns(t) /\ tasks'[t].io = None) =>
                   /\ Record(ipns', tasks[t].peer) = RecordOf(tasks[t].path)
                   /\ tasks'[t].res = OkUnit
             /\ \A v \in PathValues :
                   (/\ IpnsGetRuns(t)
                    /\ tasks'[t].io = None
                    /\ Record(ipns, tasks[t].peer) = RecordOf(v)) =>
                      /\ tasks'[t].res = OkSome
                      /\ tasks'[t].path = v
       /\ \A p \in Peers :
             Record(ipns', p) # Record(ipns, p) =>
                \E t \in Tasks :
                   /\ IpnsPutRuns(t) \/ IpnsRemoveRuns(t)
                   /\ tasks[t].peer = p]_vars

C12_Witness ==
    \E t, u \in Tasks :
       /\ tasks[t].op = "put_ipns"
       /\ tasks[t].pc = "done"
       /\ tasks[t].res = OkUnit
       /\ tasks[t].peer = "peerB"
       /\ tasks[u].op = "get_ipns"
       /\ tasks[u].pc = "done"
       /\ tasks[u].peer = "peerB"
       /\ tasks[u].res = OkSome
       /\ tasks[u].path = tasks[t].path
       /\ tasks[u].path.segs # <<>>
       /\ Record(ipns, "peerB") = RecordOf(tasks[t].path)

\* ----------------------------------------------------------------- C13
C13_State ==
    \A t \in Tasks :
       (tasks[t].op = "get_ipns" /\ tasks[t].res = OkNone) =>
          /\ tasks[t].pc = "done"
          /\ tasks[t].io = None
          /\ tasks[t].path = NoPath

\* C13: get_ipns(p) returns None, not an error, whenever no record is
\* stored for p.  A get_ipns(p) the store does not fail returns Ok(None)
\* when it finds no record under p; a remove_ipns(p) the store does not
\* fail leaves no record under p, whatever was there; and a record appears
\* under p only when a put_ipns for p runs, so that a peer never published
\* and a peer published and then removed both read as None.
C13_GetIpnsNoneWhenAbsent ==
    [][/\ C13_State'
       /\ \A t \in Tasks :
             /\ (/\ IpnsGetRuns(t)
                 /\ tasks'[t].io = None
                 /\ ~Record(ipns, tasks[t].peer).some) =>
                   tasks'[t].res = OkNone
             /\ (IpnsRemoveRuns(t) /\ tasks'[t].io = None) =>
                   /\ ~Record(ipns', tasks[t].peer).some
                   /\ tasks'[t].res = OkUnit
       /\ \A p \in Peers :
             (~Record(ipns, p).some /\ Record(ipns', p).some) =>
                \E t \in Tasks : IpnsPutRuns(t) /\ tasks[t].peer = p]_vars

C13_Witness ==
    \E t, u \in Tasks :
       /\ tasks[t].op = "remove_ipns"
       /\ tasks[t].pc = "done"
       /\ tasks[t].res = OkUnit
       /\ tasks[u].op = "get_ipns"
       /\ tasks[u].pc = "done"
       /\ tasks[u].peer = tasks[t].peer
       /\ tasks[u].res = OkNone
       /\ ~Record(ipns, tasks[t].peer).some

\* ----------------------------------------------------------------- C14
\* The bytes get_ipns(p) is about to read, when a record is stored under p.
ReadsBytes(t, bytes) ==
    /\ IpnsGetRuns(t)
    /\ tasks'[t].io = None
    /\ Record(ipns, tasks[t].peer) = [some |-> TRUE, bytes |-> bytes]

\* C14: get_ipns(p) fails with a decode error when the stored bytes are not
\* valid UTF-8 or do not parse as a path; it never returns Some(path) for
\* such bytes.
C14_InvalidBytesFail ==
    [][\A t \in Tasks, bytes \in StoredBytes :
          (/\ ReadsBytes(t, bytes)
           /\ \/ ~IsValidUtf8(bytes)
              \/ ~FromStr(FromUtf8Lossy(bytes)).ok) =>
             /\ IsErr(tasks'[t].res)
             /\ tasks'[t].path = NoPath]_vars

\* What the code does with such bytes: from_utf8_lossy never fails, so
\* get_ipns fails exactly when the lossy text does not parse, and otherwise
\* returns the path parsed from a text that holds U+FFFD for the bad bytes.
C14_LossyDecoding ==
    [][\A t \in Tasks, bytes \in StoredBytes :
          ReadsBytes(t, bytes) =>
             LET parsed == FromStr(FromUtf8Lossy(bytes)) IN
             IF parsed.ok
             THEN tasks'[t].res = OkSome /\ tasks'[t].path = parsed.path
             ELSE tasks'[t].res = Err("ParseError") /\ tasks'[t].path = NoPath]_vars

\* get_ipns has returned Some(path) for a record that is not valid UTF-8.
C14_Witness ==
    \E t \in Tasks :
       /\ tasks[t].op = "get_ipns"
       /\ tasks[t].pc = "done"
       /\ tasks[t].res = OkSome
       /\ tasks[t].path = Path("ipfs", <<"Q", "y">>, << <<ReplacementChar>> >>)
       /\ Record(ipns, tasks[t].peer).some
       /\ ~IsValidUtf8(Record(ipns, tasks[t].peer).bytes)

\* ----------------------------------------------------------------- C15
WantSent(t) == tasks[t].pc = "want" /\ tasks'[t].pc = "await"

AwaitReturns(t) == tasks[t].pc = "await" /\ tasks'[t].pc = "done"

\* The queue has grown by one event at its tail.
AppendedOne ==
    /\ Len(chan') = Len(chan) + 1
    /\ chan' = Append(chan, chan'[Len(chan')])

\* One caller has made three calls, the last a get_block(c) past its check,
\* and the receiver, which has taken nothing yet, was sent ProvideBlock(c)
\* and then UnprovideBlock(c): the calls were put_block, remove_block and
\* get_block for c.  If the removal removed the block, the get has sent
\* WantBlock(c) behind the two and is suspended.
C15_State ==
    \A t \in Tasks, c \in Cids :
       (/\ \A u \in Tasks \ {t} : tasks[u].op = "idle"
        /\ receiverAlive
        /\ calls = 3
        /\ tasks[t].op = "get_block"
        /\ tasks[t].cid = c
        /\ tasks[t].pc \in {"await", "done"}
        /\ tasks[t].io \in {"absent", "present"}
        /\ Len(chan) >= 2
        /\ chan[1] = ProvideBlock(c)
        /\ chan[2] = UnprovideBlock(c)
        /\ ~Stored(c)) =>
          /\ chan = <<ProvideBlock(c), UnprovideBlock(c), WantBlock(c)>>
          /\ tasks[t].pc = "await"
          /\ tasks[t].io = "absent"
          /\ tasks[t].sent = <<WantBlock(c)>>

\* C15: after remove_block(c) has removed a stored block, a subsequent
\* get_block(c) emits WantBlock(c) and suspends instead of returning the old
\* block, so that for put_block, remove_block, get_block the receiver is
\* sent ProvideBlock(c), UnprovideBlock(c), WantBlock(c) in that order.  A
\* removal that succeeds leaves c absent, and c stays absent until a put
\* stores it; a check that finds c absent leads to the one WantBlock(c) and
\* to the wait, which returns only a block the store holds; and every event
\* is appended behind those sent before it, the receiver taking the oldest.
C15_RemoveThenGetWants ==
    [][/\ C15_State'
       /\ \A t \in Tasks :
             /\ (RemovalRuns(t) /\ tasks'[t].res = OkUnit) =>
                   ~StoreContains(blocks', tasks[t].cid)
             /\ (/\ ContainsChecked(t)
                 /\ ~Stored(tasks[t].cid)
                 /\ tasks'[t].io \notin BlockStoreErrors) =>
                   /\ tasks'[t].pc = "want"
                   /\ tasks'[t].res = NoResult
             /\ WantSent(t) =>
                   /\ tasks'[t].sent = <<WantBlock(tasks[t].cid)>>
                   /\ Enqueued(WantBlock(tasks[t].cid))
             /\ AwaitReturns(t) =>
                   /\ Stored(tasks[t].cid)
                   /\ tasks'[t].res = StoreGet(blocks, tasks[t].cid)
             /\ PutReturnsOk(t) => Enqueued(ProvideBlock(tasks[t].cid))
             /\ CallsRemove(t) => Enqueued(UnprovideBlock(tasks'[t].cid))
       /\ \A c \in Cids :
             (~Stored(c) /\ StoreContains(blocks', c)) =>
                \E t \in Tasks : PutSucceeds(t) /\ CidOf(tasks[t].data) = c
       /\ (chan' # chan /\ ~AppendedOne) =>
             \/ receiverAlive /\ receiverAlive' /\ chan' = Tail(chan)
             \/ receiverAlive /\ ~receiverAlive' /\ chan' = <<>>]_vars

C15_Witness ==
    \E t \in Tasks, c \in Cids :
       /\ \A u \in Tasks \ {t} : tasks[u].op = "idle"
       /\ calls = 3
       /\ tasks[t].op = "get_block"
       /\ tasks[t].cid = c
       /\ tasks[t].pc = "await"
       /\ tasks[t].io = "absent"
       /\ ~Stored(c)
       /\ chan = <<ProvideBlock(c), UnprovideBlock(c), WantBlock(c)>>

\* ----------------------------------------------------------------- C16
AbandonsGet(t) ==
    /\ tasks[t].op = "get_block"
    /\ tasks[t].pc # "dropped"
    /\ tasks'[t].pc = "dropped"

\* A dropped call keeps no result and no pending store outcome, and a put
\* waiting to run can run whatever calls have been dropped.
C16_State ==
    \A t \in Tasks :
       /\ tasks[t].pc = "dropped" =>
             /\ tasks[t].res = NoResult
             /\ tasks[t].io = None
       /\ tasks[t].pc = "put" => ENABLED PutBlock_put(t)

\* C16: abandoning a suspended get_block(c), before its check or during its
\* wait, leaves the block store and the data store (and the channel and
\* every other call) unchanged, and does not prevent a later put_block(b)
\* with cid(b) = c from succeeding and making b retrievable by a fresh
\* get_block(c): the put stores b whatever was dropped, and a get_block(c)
\* whose check finds c stored returns the stored block.
C16_AbandonedGetHarmless ==
    [][/\ C16_State'
       /\ \A t \in Tasks :
             /\ AbandonsGet(t) =>
                   /\ tasks[t].pc \in {"contains", "await"}
                   /\ blocks' = blocks
                   /\ ipns' = ipns
                   /\ chan' = chan
                   /\ receiverAlive' = receiverAlive
                   /\ \A u \in Tasks \ {t} : tasks'[u] = tasks[u]
             /\ PutSucceeds(t) => Retrievable(blocks', tasks[t].data)
             /\ (/\ ContainsChecked(t)
                 /\ Stored(tasks[t].cid)
                 /\ tasks'[t].io \notin BlockStoreErrors) =>
                   /\ tasks'[t].io = "present"
                   /\ tasks'[t].pc = "await"
             /\ AwaitReturns(t) =>
                   /\ IsOk(tasks'[t].res)
                   /\ tasks'[t].res.cid = tasks[t].cid
                   /\ Retrievable(blocks, tasks'[t].res.data)]_vars

C16_Witness ==
    \E t, u \in Tasks, c \in Cids :
       /\ t # u
       /\ calls = 3
       /\ tasks[t].op = "get_block"
       /\ tasks[t].cid = c
       /\ tasks[t].pc = "dropped"
       /\ tasks[t].sent = <<WantBlock(c)>>
       /\ tasks[u].op = "get_block"
       /\ tasks[u].cid = c
       /\ tasks[u].pc = "done"
       /\ tasks[u].io = "present"
       /\ IsOk(tasks[u].res)
       /\ CidOf(tasks[u].res.data) = c
       /\ Stored(c)

\* ----------------------------------------------------------------- C17
Returned(t) == tasks[t].op \in {"init", "open"} /\ tasks[t].pc = "done"

\* C17: when both stores fail in init() or open(), the call surfaces
\* exactly one of the two errors, not a combination of them and not an error
\* of its own; when exactly one store fails, that store's failure is what
\* the call returns.
C17_OneErrorSurfaced ==
    \A t \in Tasks :
       Returned(t) =>
          /\ (IsErr(tasks[t].r1) /\ IsErr(tasks[t].r2)) =>
                tasks[t].res \in {tasks[t].r1, tasks[t].r2}
          /\ (IsErr(tasks[t].r1) /\ IsOk(tasks[t].r2)) =>
                tasks[t].res = tasks[t].r1
          /\ (IsOk(tasks[t].r1) /\ IsErr(tasks[t].r2)) =>
                tasks[t].res = tasks[t].r2

C17_Witness ==
    \E t, u \in Tasks :
       /\ Returned(t)
       /\ IsErr(tasks[t].r1)
       /\ IsErr(tasks[t].r2)
       /\ tasks[t].r1 # tasks[t].r2
       /\ tasks[t].res \in {tasks[t].r1, tasks[t].r2}
       /\ Returned(u)
       /\ IsOk(tasks[u].r1)
       /\ tasks[u].res = tasks[u].r2
       /\ tasks[u].res = Err("DataIoError")

\* ----------------------------------------------------------------- C18
JoinReturns(t) == tasks[t].pc = "join" /\ tasks'[t].pc = "done"

C18_State ==
    \A t \in Tasks :
       Returned(t) =>
          /\ tasks[t].r1 # NoResult
          /\ tasks[t].r2 # NoResult
          /\ (IsErr(tasks[t].r1) /\ IsErr(tasks[t].r2)) =>
                tasks[t].res = tasks[t].r1

\* C18: init() and open() never short-circuit.  The call returns only
\* once both stores' operations have completed, also when one of them has
\* already failed: a step that completes one store's operation while the
\* other is still running does not return.  When both fail, the error
\* returned is the block store's, in whichever order the two completed.
C18_NoShortCircuit ==
    [][/\ C18_State'
       /\ \A t \in Tasks :
             /\ JoinReturns(t) =>
                   /\ tasks[t].r1 # NoResult
                   /\ tasks[t].r2 # NoResult
                   /\ tasks'[t].r1 = tasks[t].r1
                   /\ tasks'[t].r2 = tasks[t].r2
             /\ (/\ tasks[t].pc = "join"
                 /\ tasks'[t].pc = "join"
                 /\ tasks'[t] # tasks[t]) =>
                   /\ tasks'[t].res = NoResult
                   /\ \/ /\ tasks[t].r1 = NoResult
                         /\ tasks'[t].r1 # NoResult
                         /\ tasks'[t].r2 = tasks[t].r2
                      \/ /\ tasks[t].r2 = NoResult
                         /\ tasks'[t].r2 # NoResult
                         /\ tasks'[t].r1 = tasks[t].r1]_vars

\* Both stores failed, the data store first or the block store first (one
\* task is seen with only the data store's failure in), and the call
\* returned the block store's error.
C18_Witness ==
    \E t, u \in Tasks :
       /\ Returned(t)
       /\ tasks[t].r1 = Err("BlockIoError")
       /\ tasks[t].r2 = Err("DataIoError")
       /\ tasks[t].res = Err("BlockIoError")
       /\ tasks[u].pc = "join"
       /\ tasks[u].r1 = NoResult
       /\ tasks[u].r2 = Err("DataIoError")

\* ----------------------------------------------------------------- C19
AbandonsRemove(t) ==
    /\ tasks[t].op = "remove_block"
    /\ tasks[t].pc = "remove"
    /\ tasks'[t].pc = "dropped"

C19_State ==
    \A t \in Tasks :
       (tasks[t].op = "remove_block" /\ tasks[t].pc \in {"remove", "dropped"}) =>
          /\ tasks[t].sent = <<UnprovideBlock(tasks[t].cid)>>
          /\ tasks[t].res = NoResult

\* C19 (amended): remove_block(c) sends UnprovideBlock(c) at the moment it
\* is called, before the store removal has started, and the event is
\* enqueued then if the receiver is alive.  The call leaves the store as it
\* is; when the removal later runs, the event has been sent already and the
\* removal sends nothing; and when the returned removal is abandoned without
\* ever running, the event stays sent and the store and the channel stay
\* unchanged.
C19_UnprovideSentAtCall ==
    [][/\ C19_State'
       /\ \A t \in Tasks :
             /\ CallsRemove(t) =>
                   /\ tasks'[t].sent = <<UnprovideBlock(tasks'[t].cid)>>
                   /\ Enqueued(UnprovideBlock(tasks'[t].cid))
                   /\ blocks' = blocks
             /\ RemovalRuns(t) =>
                   /\ tasks[t].sent = <<UnprovideBlock(tasks[t].cid)>>
                   /\ tasks'[t].sent = tasks[t].sent
                   /\ chan' = chan
             /\ AbandonsRemove(t) =>
                   /\ tasks'[t].sent = <<UnprovideBlock(tasks[t].cid)>>
                   /\ blocks' = blocks
                   /\ chan' = chan]_vars

\* C19: remove_block(c) enqueues UnprovideBlock(c) at the moment it is
\* called: the call puts the event in the channel.
C19_EnqueuedAtCall ==
    [][\A t \in Tasks :
          CallsRemove(t) =>
             chan' = Append(chan, UnprovideBlock(tasks'[t].cid))]_vars

\* A removal was abandoned without running: its event is in the channel and
\* the block is still stored.
C19_Witness ==
    \E t \in Tasks, c \in Cids :
       /\ tasks[t].op = "remove_block"
       /\ tasks[t].cid = c
       /\ tasks[t].pc = "dropped"
       /\ receiverAlive
       /\ chan # <<>>
       /\ chan[Len(chan)] = UnprovideBlock(c)
       /\ Stored(c)

\* ----------------------------------------------------------------- C20
CheckFails(t) ==
    /\ tasks[t].pc = "contains"
    /\ tasks'[t].pc # "contains"
    /\ tasks'[t].pc # "dropped"
    /\ tasks'[t].io \in BlockStoreErrors

C20_State ==
    \A t \in Tasks :
       (tasks[t].op = "get_block" /\ tasks[t].io \in BlockStoreErrors) =>
          /\ tasks[t].pc = "done"
          /\ tasks[t].res = Err(tasks[t].io)
          /\ tasks[t].sent = <<>>

\* C20: when the containment check fails with an error, get_block(c)
\* returns that error at once: the step that sees the failure ends the call
\* with it, no WantBlock(c) is sent, the availability wait is not entered,
\* and the block store and the channel are left unchanged.
C20_CheckErrorReturned ==
    [][/\ C20_State'
       /\ \A t \in Tasks :
             CheckFails(t) =>
                /\ tasks'[t].pc = "done"
                /\ tasks'[t].res = Err(tasks'[t].io)
                /\ tasks'[t].sent = <<>>
                /\ blocks' = blocks
                /\ chan' = chan]_vars

C20_Witness ==
    \E t \in Tasks :
       /\ tasks[t].op = "get_block"
       /\ tasks[t].pc = "done"
       /\ tasks[t].res = Err("BlockIoError")
       /\ tasks[t].sent = <<>>
       /\ ~Stored(tasks[t].cid)
       /\ receiverAlive
       /\ chan = <<>>

====
